---- MODULE Spec2Model ----
(***************************************************************************)
(* Fraud-detection prototype: the rule evaluator (rules.py), the synthetic *)
(* data generator and trainer (model.py) and the "Ingest Next Order"       *)
(* handler of the dashboard script (app.py).                               *)
(*                                                                         *)
(* Python strings that the code inspects character by character (emails,   *)
(* phone numbers, rule names) are sequences of one-character strings.      *)
(* IP addresses are only compared for equality and are atomic strings.     *)
(* An address f"{i} Green Street, CityX, {pin}" is the tuple of its parts  *)
(* and the empty string "" of an address is the empty tuple.               *)
(***************************************************************************)
EXTENDS Integers, Sequences, FiniteSets, TLC

VARIABLES
    call,              \* the last call of a rules.py function, with what it returned
    new_orders,        \* st.session_state.new_orders: the queue of incoming orders
    processed_orders,  \* st.session_state.processed_orders: the result entries
    seen_ips,          \* st.session_state.seen_ips
    ui,                \* what the last script run showed: nothing, the warning, or an exception
    trace,             \* history: the handler's local variables, one record per ingested order
    started,           \* whether 'new_orders' is in st.session_state
    training_data,     \* the frame the last script run trained on (app.py line 14)
    new_orders_df      \* the frame the queue was made from, before its columns were dropped

sessionVars == <<new_orders, processed_orders, seen_ips, ui, trace>>
scriptVars == <<started, training_data, new_orders_df>>
vars == <<call, new_orders, processed_orders, seen_ips, ui, trace, started, training_data,
          new_orders_df>>

---------------------------------------------------------------------------
(* Bounds of the model *)

MaxPhoneLen == 5
MaxOrders == 3
MaxTrainRows == 2
MaxRows == 2
MaxGenRows == 4

---------------------------------------------------------------------------
(* Python str and dict operations used by the code *)

UpperChars == <<"A", "B", "C", "D", "E", "F", "G", "H", "I", "J", "K", "L", "M", "N", "O", "P", "Q", "R", "S", "T", "U", "V", "W", "X", "Y", "Z">>
LowerChars == <<"a", "b", "c", "d", "e", "f", "g", "h", "i", "j", "k", "l", "m", "n", "o", "p", "q", "r", "s", "t", "u", "v", "w", "x", "y", "z">>

Uppers == {UpperChars[i] : i \in DOMAIN UpperChars}
Lowers == {LowerChars[i] : i \in DOMAIN LowerChars}
ToLower == [c \in Uppers |-> LowerChars[CHOOSE i \in DOMAIN UpperChars : UpperChars[i] = c]]
ToUpper == [c \in Lowers |-> UpperChars[CHOOSE i \in DOMAIN LowerChars : LowerChars[i] = c]]

IsUpper(c) == c \in Uppers
IsLower(c) == c \in Lowers
IsAlpha(c) == IsUpper(c) \/ IsLower(c)

LowerChar(c) == IF IsUpper(c) THEN ToLower[c] ELSE c
UpperChar(c) == IF IsLower(c) THEN ToUpper[c] ELSE c

\* str.lower()
StrLower(s) == [i \in DOMAIN s |-> LowerChar(s[i])]

\* str.title(): a cased character is upper-cased when it follows an uncased
\* one (or starts the string) and lower-cased otherwise
StrTitle(s) ==
    [i \in DOMAIN s |->
        IF i = 1 \/ ~IsAlpha(s[i - 1]) THEN UpperChar(s[i]) ELSE LowerChar(s[i])]

\* str.replace(old, new) for one-character old and new
StrReplace(s, old, new) == [i \in DOMAIN s |-> IF s[i] = old THEN new ELSE s[i]]

\* str.count(c) for a one-character c
StrCount(s, c) == Cardinality({i \in DOMAIN s : s[i] = c})

\* str.startswith(p), str.endswith(p)
StartsWith(s, p) == Len(s) >= Len(p) /\ SubSeq(s, 1, Len(p)) = p
EndsWith(s, p) == Len(s) >= Len(p) /\ SubSeq(s, Len(s) - Len(p) + 1, Len(s)) = p

\* str.split(sep) for a one-character sep: the segments between separators,
\* always at least one segment
RECURSIVE StrSplit(_, _)
StrSplit(s, sep) ==
    IF \A i \in DOMAIN s : s[i] # sep
    THEN <<s>>
    ELSE LET k == CHOOSE i \in DOMAIN s : s[i] = sep /\ \A j \in 1..(i - 1) : s[j] # sep
         IN <<SubSeq(s, 1, k - 1)>> \o StrSplit(SubSeq(s, k + 1, Len(s)), sep)

\* sep.join(list)
RECURSIVE StrJoin(_, _)
StrJoin(sep, list) ==
    IF list = <<>> THEN <<>>
    ELSE IF Len(list) = 1 THEN list[1]
    ELSE list[1] \o sep \o StrJoin(sep, Tail(list))

\* What a call gives back: a value, or the exception it raised
Ret(v) == [exc |-> "none", ret |-> v]
Raise(e) == [exc |-> e, ret |-> FALSE]

\* seq[i] with Python's 0-based index
GetItem(s, i) == IF i + 1 \in DOMAIN s THEN Ret(s[i + 1]) ELSE Raise("IndexError")

\* dict.get(key, default) and dict[key]
DictGet(d, key, default) == IF key \in DOMAIN d THEN d[key] ELSE default
HasKey(d, key) == key \in DOMAIN d

---------------------------------------------------------------------------
(* rules.py *)

tempmail_com == <<"t", "e", "m", "p", "m", "a", "i", "l", ".", "c", "o", "m">>
fakeemail_com == <<"f", "a", "k", "e", "e", "m", "a", "i", "l", ".", "c", "o", "m">>
disposable_com == <<"d", "i", "s", "p", "o", "s", "a", "b", "l", "e", ".", "c", "o", "m">>

DISPOSABLE_DOMAINS == {tempmail_com, fakeemail_com, disposable_com}

is_address_mismatch(billing_address, shipping_address) ==
    billing_address # shipping_address

\* a plausible slip: the domain is compared without lower-casing it
is_suspicious_email_nolower(email) ==
    LET domain == GetItem(StrSplit(email, "@"), 1)
    IN  IF domain.exc = "IndexError" THEN Ret(FALSE)
        ELSE Ret(domain.ret \in DISPOSABLE_DOMAINS)

is_suspicious_email(email) ==
    LET domain == GetItem(StrSplit(email, "@"), 1)
    IN  IF domain.exc = "IndexError" THEN Ret(FALSE)
        ELSE Ret(StrLower(domain.ret) \in DISPOSABLE_DOMAINS)

\* a plausible slip: the length check is dropped, so phone[0] is reached first
is_suspicious_phone_nolen(phone) ==
    LET c0 == GetItem(phone, 0)
    IN  IF c0.exc # "none" THEN c0
        ELSE IF StrCount(phone, c0.ret) = Len(phone) THEN Ret(TRUE)
        ELSE IF StartsWith(phone, <<"0", "0", "0">>) \/ StartsWith(phone, <<"9", "9", "9">>)
             THEN Ret(TRUE)
        ELSE IF EndsWith(phone, <<"0", "0", "0", "0">>) \/ EndsWith(phone, <<"1", "1", "1", "1">>)
             THEN Ret(TRUE)
        ELSE Ret(FALSE)

is_suspicious_phone(phone) ==
    IF Len(phone) < 4 THEN Ret(TRUE)
    ELSE LET c0 == GetItem(phone, 0)
         IN  IF c0.exc # "none" THEN c0
             ELSE IF StrCount(phone, c0.ret) = Len(phone) THEN Ret(TRUE)
             ELSE IF StartsWith(phone, <<"0", "0", "0">>) \/ StartsWith(phone, <<"9", "9", "9">>)
                  THEN Ret(TRUE)
             ELSE IF EndsWith(phone, <<"0", "0", "0", "0">>) \/ EndsWith(phone, <<"1", "1", "1", "1">>)
                  THEN Ret(TRUE)
             ELSE Ret(FALSE)

k_mismatch == <<"m", "i", "s", "m", "a", "t", "c", "h">>
k_suspicious_email == <<"s", "u", "s", "p", "i", "c", "i", "o", "u", "s", "_", "e", "m", "a", "i", "l">>
k_suspicious_phone == <<"s", "u", "s", "p", "i", "c", "i", "o", "u", "s", "_", "p", "h", "o", "n", "e">>
k_repeated_ip == <<"r", "e", "p", "e", "a", "t", "e", "d", "_", "i", "p">>

\* flags[name] of the dict apply_rules returns: a Python dict keeps its keys
\* in insertion order, so it is the sequence of its (name, val) items
Flag(flags, name) == flags[CHOOSE i \in DOMAIN flags : flags[i].name = name].val

\* a plausible slip: the rule evaluator records the IP itself
apply_rules_adds_ip(order, seen) ==
    LET e == is_suspicious_email(DictGet(order, "email", <<>>))
        p == is_suspicious_phone(DictGet(order, "phone", <<>>))
        ip == DictGet(order, "ip_address", "")
    IN  [exc |-> IF e.exc # "none" THEN e.exc ELSE p.exc,
         flags |-> << [name |-> k_mismatch,
                       val |-> is_address_mismatch(DictGet(order, "billing_address", <<>>),
                                                   DictGet(order, "shipping_address", <<>>))],
                      [name |-> k_suspicious_email, val |-> e.ret],
                      [name |-> k_suspicious_phone, val |-> p.ret],
                      [name |-> k_repeated_ip, val |-> ip \in seen] >>,
         seen_ips |-> seen \cup {ip}]

\* apply_rules(order, seen_ips): the flags it returns, the exception a rule
\* raised (none does), and the set object seen_ips as the call leaves it
apply_rules(order, seen) ==
    LET e == is_suspicious_email(DictGet(order, "email", <<>>))
        p == is_suspicious_phone(DictGet(order, "phone", <<>>))
        ip == DictGet(order, "ip_address", "")
    IN  [exc |-> IF e.exc # "none" THEN e.exc ELSE p.exc,
         flags |-> << [name |-> k_mismatch,
                       val |-> is_address_mismatch(DictGet(order, "billing_address", <<>>),
                                                   DictGet(order, "shipping_address", <<>>))],
                      [name |-> k_suspicious_email, val |-> e.ret],
                      [name |-> k_suspicious_phone, val |-> p.ret],
                      [name |-> k_repeated_ip, val |-> ip \in seen] >>,
         seen_ips |-> seen]

---------------------------------------------------------------------------
(* model.py *)

gmail_com == <<"g", "m", "a", "i", "l", ".", "c", "o", "m">>
yahoo_com == <<"y", "a", "h", "o", "o", ".", "c", "o", "m">>
outlook_com == <<"o", "u", "t", "l", "o", "o", "k", ".", "c", "o", "m">>
hotmail_com == <<"h", "o", "t", "m", "a", "i", "l", ".", "c", "o", "m">>
example_com == <<"e", "x", "a", "m", "p", "l", "e", ".", "c", "o", "m">>

disposable_domains == <<tempmail_com, fakeemail_com, disposable_com>>
normal_domains == <<gmail_com, yahoo_com, outlook_com, hotmail_com, example_com>>

IntOf(b) == IF b THEN 1 ELSE 0
Min(a, b) == IF a < b THEN a ELSE b

\* how many IPs are picked to be repeated, and how many rows each is written to
RepeatIps == 3
RepeatRows == 3

\* The random module is seeded once, when model.py is imported (line 7), and
\* never again: every call of generate_mock_data reads on from where the
\* last one stopped, so what a call draws is not fixed by the call. The draws
\* of one call are
\*   ip_list[i]       random_ip() for row i
\*   repeated_ips     random.sample(ip_list, min(3, n))
\*   indices          random.sample(range(n), min(3, n)), once per repeated IP
\*   rows[i]          the draws of the loop body for row i: pin_code, u_ship
\*                    (random() in hundredths), ship_pin (read when u_ship >= 80),
\*                    u_email, domain_idx (random.choice), email_user, phone,
\*                    u_phone, amount

\* lines 21-24: the lists the loop may leave, from the lists it may start
\* with, when repeated_ips are still to be written; each pass draws
\* random.sample(range(n), min(3, n)) and writes the IP into those rows
RECURSIVE ApplyRepeats(_, _, _)
ApplyRepeats(ip_lists, repeated_ips, n) ==
    IF repeated_ips = <<>> THEN ip_lists
    ELSE ApplyRepeats({[i \in 1..n |-> IF i \in indices THEN Head(repeated_ips) ELSE l[i]] :
                          l \in ip_lists,
                          indices \in {S \in SUBSET (1..n) :
                                          Cardinality(S) = Min(RepeatRows, n)}},
                      Tail(repeated_ips), n)

\* lines 31-82: the row appended for i (0-based) from its draws rd
MkRow(i, rd, ip) ==
    LET pin_code == rd.pin_code
        ship_pin == IF rd.u_ship < 80 THEN pin_code ELSE rd.ship_pin
        mismatch == IntOf(ship_pin # pin_code)
        billing_address == <<i, "Green Street", "CityX", pin_code>>
        shipping_address == IF mismatch = 0 THEN billing_address
                            ELSE <<i, "High Street", "CityY", ship_pin>>
        domain == IF rd.u_email < 10 THEN disposable_domains[rd.domain_idx]
                  ELSE normal_domains[rd.domain_idx]
        suspicious_phone ==
            IF \/ rd.u_phone < 10
               \/ StartsWith(rd.phone, <<"0", "0", "0">>) \/ StartsWith(rd.phone, <<"9", "9", "9">>)
               \/ EndsWith(rd.phone, <<"0", "0", "0", "0">>)
               \/ EndsWith(rd.phone, <<"1", "1", "1", "1">>)
            THEN 1 ELSE 0
    IN  [order_id |-> i + 1,
         billing_address |-> billing_address,
         shipping_address |-> shipping_address,
         billing_pin |-> pin_code,
         shipping_pin |-> ship_pin,
         email |-> rd.email_user \o <<"@">> \o domain,
         phone |-> rd.phone,
         ip_address |-> ip,
         mismatch |-> mismatch,
         suspicious_email |-> IntOf(\E j \in DOMAIN disposable_domains : disposable_domains[j] = domain),
         suspicious_phone |-> suspicious_phone,
         amount |-> rd.amount]

\* a plausible slip: only the later occurrences of an IP are marked, as at serving time
RepeatedIpColumn_later(data, i) ==
    IF \E j \in 1..(i - 1) : data[j].ip_address = data[i].ip_address THEN 1 ELSE 0

\* lines 85-86: ip_counts = value_counts(); 1 if ip_counts[ip] > 1 else 0
RepeatedIpColumn(data, i) ==
    IF Cardinality({j \in DOMAIN data : data[j].ip_address = data[i].ip_address}) > 1
    THEN 1 ELSE 0

\* lines 91-107: fraud_prob > 0.5 iff linear_score > 0; the score in 1/10000
FraudLabel(row) ==
    LET linear_score == row.mismatch * 10000 + row.suspicious_email * 12000
                        + row.suspicious_phone * 8000 + row.repeated_ip * 10000
                        + row.amount * 5 - 24000
    IN  IntOf(linear_score > 0)

\* generate_mock_data(n) when lines 18-24 leave ip_list and the loop draws rows
generate_mock_data(n, ip_list, rows) ==
    LET data == [i \in 1..n |-> MkRow(i - 1, rows[i], ip_list[i])]
        with_ip == [i \in 1..n |-> data[i] @@ [repeated_ip |-> RepeatedIpColumn(data, i)]]
    IN  [i \in 1..n |-> with_ip[i] @@ [fraud_label |-> FraudLabel(with_ip[i])]]

\* Numbers with a fractional part are fixed-point integers: a feature value
\* is counted in thousandths, a probability in 1/100000, a percentage in
\* hundredths of a percent.
Thousandths(n) == n * 1000

features == <<"mismatch", "suspicious_email", "suspicious_phone", "repeated_ip", "amount">>

\* lines 116-119: X = training_data[features]; X['amount'] = X['amount'] / 1000.0
ExtractX(training) ==
    [j \in DOMAIN training |->
        [c \in DOMAIN features |->
            IF features[c] = "amount"
            THEN Thousandths(training[j][features[c]]) \div 1000
            ELSE Thousandths(training[j][features[c]])]]

\* train_model: LogisticRegression.fit raises ValueError when y holds one class only
train_model(training) ==
    LET X == ExtractX(training)
        y == [j \in DOMAIN training |-> training[j].fraud_label]
    IN  IF \A j \in DOMAIN y : y[j] = y[1] THEN Raise("ValueError")
        ELSE Ret([X |-> X, y |-> y])

---------------------------------------------------------------------------
(* app.py: the "Ingest Next Order" handler *)

\* a plausible slip: the amount is passed to the model unscaled
InferFeatures_unscaled(flags, next_order) ==
    << Thousandths(IntOf(Flag(flags, k_mismatch))),
       Thousandths(IntOf(Flag(flags, k_suspicious_email))),
       Thousandths(IntOf(Flag(flags, k_suspicious_phone))),
       Thousandths(IntOf(Flag(flags, k_repeated_ip))),
       Thousandths(next_order["amount"]) >>

\* features = [[int(flags[...]) x 4, next_order['amount'] / 1000.0]]
InferFeatures(flags, next_order) ==
    << Thousandths(IntOf(Flag(flags, k_mismatch))),
       Thousandths(IntOf(Flag(flags, k_suspicious_email))),
       Thousandths(IntOf(Flag(flags, k_suspicious_phone))),
       Thousandths(IntOf(Flag(flags, k_repeated_ip))),
       Thousandths(next_order["amount"]) \div 1000 >>

\* round(risk_prob * 100, 2): risk_prob in 1/100000, the result in hundredths
\* of a percent, halves rounded to even
RoundPercent(risk_prob) ==
    LET q == risk_prob \div 10
        r == risk_prob % 10
    IN  IF r < 5 THEN q
        ELSE IF r > 5 THEN q + 1
        ELSE IF q % 2 = 0 THEN q ELSE q + 1

\* threshold = 50.0, in hundredths of a percent
threshold == 5000

\* any(flags.values())
AnyFlag(flags) == \E i \in DOMAIN flags : flags[i].val

\* a plausible slip: a strict comparison with the threshold
Flagged_strict(risk_percent, flags) == risk_percent > threshold \/ AnyFlag(flags)

\* flagged = (risk_percent >= threshold or any(flags.values()))
Flagged(risk_percent, flags) == risk_percent >= threshold \/ AnyFlag(flags)

\* a plausible slip: the names are listed without title-casing
RECURSIVE TriggeredRules_raw(_)
TriggeredRules_raw(flags) ==
    IF flags = <<>> THEN <<>>
    ELSE (IF Head(flags).val
          THEN <<StrReplace(Head(flags).name, "_", " ")>>
          ELSE <<>>) \o TriggeredRules_raw(Tail(flags))

\* [name.replace('_', ' ').title() for name, val in flags.items() if val]
RECURSIVE TriggeredRules(_)
TriggeredRules(flags) ==
    IF flags = <<>> THEN <<>>
    ELSE (IF Head(flags).val
          THEN <<StrTitle(StrReplace(Head(flags).name, "_", " "))>>
          ELSE <<>>) \o TriggeredRules(Tail(flags))

\* the keys result_entry reads from next_order, in the order it reads them
ResultKeys == <<"order_id", "email", "phone", "billing_address", "shipping_address", "amount">>

\* the first key of ResultKeys the order lacks, "" when it has them all
FirstMissing(next_order) ==
    IF \A i \in DOMAIN ResultKeys : HasKey(next_order, ResultKeys[i]) THEN ""
    ELSE ResultKeys[CHOOSE i \in DOMAIN ResultKeys :
                        /\ ~HasKey(next_order, ResultKeys[i])
                        /\ \A j \in 1..(i - 1) : HasKey(next_order, ResultKeys[j])]

ResultEntry(next_order, risk_percent, flagged, triggered_rules) ==
    [order_id |-> next_order["order_id"],
     email |-> next_order["email"],
     phone |-> next_order["phone"],
     billing_address |-> next_order["billing_address"],
     shipping_address |-> next_order["shipping_address"],
     amount |-> next_order["amount"],
     risk_score |-> risk_percent,
     flagged |-> IF flagged THEN "Yes" ELSE "No",
     alerts |-> IF triggered_rules # <<>> THEN StrJoin(<<",", " ">>, triggered_rules) ELSE <<>>]

\* a plausible slip: the IP is never recorded
UpdateSeenIps_forgets(seen, next_order) == seen

\* st.session_state.seen_ips.add(next_order['ip_address'])
UpdateSeenIps(seen, next_order) == seen \cup {next_order["ip_address"]}

\* the keys apply_rules reads with order.get(key, "")
RuleInputs == {"billing_address", "shipping_address", "email", "phone", "ip_address"}

\* The body of the handler for one order popped from the queue: its local
\* variables when it ends, the entries it appended, the seen-IP set it leaves
\* and the KeyError that ended it early ("" when it ran to its end); defaulted
\* holds the keys for which apply_rules took the default "". A local the
\* handler never assigned is <<>> (a number: -1).
Process(next_order, seen, risk_prob) ==
    LET r == apply_rules(next_order, seen)
        flags == r.flags
        start == [key_error |-> "", defaulted |-> {k \in RuleInputs : ~HasKey(next_order, k)},
                  flags |-> flags, features |-> <<>>, risk_percent |-> -1,
                  flagged |-> FALSE, scored |-> FALSE, triggered_rules |-> <<>>,
                  appended |-> <<>>, seen_ips |-> r.seen_ips]
    IN  IF ~HasKey(next_order, "amount")
        THEN [start EXCEPT !.key_error = "amount"]
        ELSE
          LET fvec == InferFeatures(flags, next_order)
              risk_percent == RoundPercent(risk_prob)
              flagged == Flagged(risk_percent, flags)
              scored == [start EXCEPT !.features = fvec, !.risk_percent = risk_percent,
                                      !.flagged = flagged, !.scored = TRUE]
          IN  IF FirstMissing(next_order) # ""
              THEN [scored EXCEPT !.key_error = FirstMissing(next_order)]
              ELSE
                LET triggered_rules == TriggeredRules(flags)
                    entry == ResultEntry(next_order, risk_percent, flagged, triggered_rules)
                    recorded == [scored EXCEPT !.triggered_rules = triggered_rules,
                                               !.appended = <<entry>>]
                IN  IF ~HasKey(next_order, "ip_address")
                    THEN [recorded EXCEPT !.key_error = "ip_address"]
                    ELSE [recorded EXCEPT !.seen_ips = UpdateSeenIps(r.seen_ips, next_order)]

\* The probabilities the trained classifier may return (model.predict_proba):
\* the fitted model is scikit-learn's, so every call may return any of them
RiskProbs == {0, 49994, 49996, 50000}

\* the probabilities drawn on in the runs of the whole script
ScriptRiskProbs == {0, 50000}

\* the button pressed with orders in the queue
Ingest ==
    /\ new_orders # <<>>
    /\ \E risk_prob \in RiskProbs :
         LET next_order == Head(new_orders)
             p == Process(next_order, seen_ips, risk_prob)
         IN  /\ new_orders' = Tail(new_orders)
             /\ processed_orders' = processed_orders \o p.appended
             /\ seen_ips' = p.seen_ips
             /\ ui' = IF p.key_error = "" THEN [kind |-> "ok", key |-> ""]
                      ELSE [kind |-> "KeyError", key |-> p.key_error]
             /\ trace' = Append(trace, [order |-> next_order] @@ p)
    /\ UNCHANGED <<call, scriptVars>>

\* the button pressed with the queue empty: st.warning
IngestEmpty ==
    /\ new_orders = <<>>
    /\ ui' = [kind |-> "warning", key |-> ""]
    /\ UNCHANGED <<call, new_orders, processed_orders, seen_ips, trace, scriptVars>>

---------------------------------------------------------------------------
(* The draws of the generator, a few of each kind *)

abcde == <<"a", "b", "c", "d", "e">>
p9876543210 == <<"9", "8", "7", "6", "5", "4", "3", "2", "1", "0">>
p0001234567 == <<"0", "0", "0", "1", "2", "3", "4", "5", "6", "7">>
p9812340000 == <<"9", "8", "1", "2", "3", "4", "0", "0", "0", "0">>

IPs == {"1.1.1.1", "2.2.2.2"}

\* same address, gmail.com, an ordinary phone: no rule matches
DrawClean ==
    [pin_code |-> 110001, u_ship |-> 50, ship_pin |-> 110001, u_email |-> 50, domain_idx |-> 1,
     email_user |-> abcde, phone |-> p9876543210, u_phone |-> 50, amount |-> 100]
\* the shipping pin is drawn again and comes out equal; the phone is marked
\* suspicious by the 10% draw alone
DrawLucky ==
    [pin_code |-> 560034, u_ship |-> 95, ship_pin |-> 560034, u_email |-> 50, domain_idx |-> 5,
     email_user |-> abcde, phone |-> p9876543210, u_phone |-> 5, amount |-> 2500]
\* another shipping pin, tempmail.com, a phone starting with 000
DrawBad ==
    [pin_code |-> 110001, u_ship |-> 95, ship_pin |-> 560034, u_email |-> 5, domain_idx |-> 1,
     email_user |-> abcde, phone |-> p0001234567, u_phone |-> 50, amount |-> 4500]
\* a phone ending in 0000 and nothing else
DrawPhone ==
    [pin_code |-> 560034, u_ship |-> 50, ship_pin |-> 560034, u_email |-> 50, domain_idx |-> 2,
     email_user |-> abcde, phone |-> p9812340000, u_phone |-> 50, amount |-> 4500]

\* the row draws of the script runs
RowDraws == {DrawClean, DrawBad}

\* the sequences of m different elements of S
InjSeqs(S, m) == {q \in [1..m -> S] : \A a, b \in 1..m : a # b => q[a] # q[b]}

\* line 20: what random.sample(ip_list, m) may return
SampleIps(ip_list, m) ==
    {[k \in 1..m |-> ip_list[q[k]]] : q \in InjSeqs(DOMAIN ip_list, m)}

\* lines 18-24: the IP lists one call generate_mock_data(n) may build
IpLists(n) ==
    UNION {UNION {ApplyRepeats({ip_list}, repeated_ips, n) :
                     repeated_ips \in SampleIps(ip_list, Min(RepeatIps, n))} :
              ip_list \in [1..n -> IPs]}

\* the frames generate_mock_data(n) may return
Frames(n) == {generate_mock_data(n, ip_list, rows) : ip_list \in IpLists(n),
                                                    rows \in [1..n -> RowDraws]}
TrainingFrames == Frames(MaxTrainRows)
OrderFrames == UNION {Frames(n) : n \in 1..MaxRows}

\* app.py line 23: the label and rule columns dropped from a row
DropColumns(row) ==
    [k \in (DOMAIN row) \ {"fraud_label", "mismatch", "suspicious_email", "suspicious_phone",
                           "repeated_ip"} |-> row[k]]

Idle == [fn |-> "none"]

---------------------------------------------------------------------------
(* A session whose queue is already filled: the handler alone *)

\* the rows at the head of a long queue: any draws, any IPs
SessionDraws ==
    { [rd |-> DrawClean, ip |-> "1.1.1.1"],
      [rd |-> DrawLucky, ip |-> "2.2.2.2"],
      [rd |-> DrawBad, ip |-> "1.1.1.1"],
      [rd |-> DrawPhone, ip |-> "2.2.2.2"] }

MkOrder(i, t) == DropColumns(MkRow(i, t.rd, t.ip))

\* the session when the first script run has filled it (app.py lines 19-27)
Init ==
    /\ call = Idle
    /\ \E draws \in [0..(MaxOrders - 1) -> SessionDraws] :
         new_orders = [k \in 1..MaxOrders |-> MkOrder(k - 1, draws[k - 1])]
    /\ processed_orders = <<>>
    /\ seen_ips = {}
    /\ ui = [kind |-> "ok", key |-> ""]
    /\ trace = <<>>
    /\ started = TRUE
    /\ training_data = <<>>
    /\ new_orders_df = <<>>

Next == Ingest \/ IngestEmpty

Spec == Init /\ [][Next]_vars

---------------------------------------------------------------------------
(* The whole script, run after run: app.py lines 13-73 *)

\* the handler run on each order of a queue in turn, from the seen-IP set seen;
\* the flags do not depend on the probability, which is taken as 0
RECURSIVE Replay(_, _)
Replay(orders, seen) ==
    IF orders = <<>> THEN <<>>
    ELSE LET p == Process(Head(orders), seen, 0)
         IN  <<p>> \o Replay(Tail(orders), p.seen_ips)

InitScript ==
    /\ call = Idle
    /\ new_orders = <<>>
    /\ processed_orders = <<>>
    /\ seen_ips = {}
    /\ ui = [kind |-> "ok", key |-> ""]
    /\ trace = <<>>
    /\ started = FALSE
    /\ training_data = <<>>
    /\ new_orders_df = <<>>

\* a script run while 'new_orders' is not in st.session_state: the model is
\* trained, then the session is filled (lines 13-27); an exception of
\* train_model ends the run before that
FirstRun ==
    /\ call = Idle
    /\ ~started
    /\ \E training \in TrainingFrames, df \in OrderFrames :
         /\ training_data' = training
         /\ IF train_model(training).exc # "none"
            THEN /\ ui' = [kind |-> train_model(training).exc, key |-> ""]
                 /\ UNCHANGED <<new_orders, processed_orders, seen_ips, trace, started,
                                new_orders_df>>
            ELSE /\ started' = TRUE
                 /\ new_orders_df' = df
                 /\ new_orders' = [k \in DOMAIN df |-> DropColumns(df[k])]
                 /\ processed_orders' = <<>>
                 /\ seen_ips' = {}
                 /\ trace' = <<>>
                 /\ ui' = [kind |-> "ok", key |-> ""]
    /\ UNCHANGED call

\* a script run with the button pressed: the model is trained again on a
\* newly generated frame (lines 13-15), then the handler runs (lines 30-73)
RunIngest ==
    /\ call = Idle
    /\ started
    /\ \E training \in TrainingFrames, risk_prob \in ScriptRiskProbs :
         /\ training_data' = training
         /\ IF train_model(training).exc # "none"
            THEN /\ ui' = [kind |-> train_model(training).exc, key |-> ""]
                 /\ UNCHANGED <<new_orders, processed_orders, seen_ips, trace>>
            ELSE IF new_orders # <<>>
            THEN LET next_order == Head(new_orders)
                     p == Process(next_order, seen_ips, risk_prob)
                 IN  /\ new_orders' = Tail(new_orders)
                     /\ processed_orders' = processed_orders \o p.appended
                     /\ seen_ips' = p.seen_ips
                     /\ ui' = IF p.key_error = "" THEN [kind |-> "ok", key |-> ""]
                              ELSE [kind |-> "KeyError", key |-> p.key_error]
                     /\ trace' = Append(trace, [order |-> next_order] @@ p)
            ELSE /\ ui' = [kind |-> "warning", key |-> ""]
                 /\ UNCHANGED <<new_orders, processed_orders, seen_ips, trace>>
    /\ UNCHANGED <<call, started, new_orders_df>>

\* generate_mock_data(n) called on its own in a process that does nothing
\* else, and its rows then handed to the handler one by one
CallGenerate ==
    /\ call = Idle
    /\ ~started
    /\ training_data = <<>>
    /\ \E n \in 1..MaxGenRows :
         \E frame \in Frames(n) :
             call' = [fn |-> "generate_mock_data", n |-> n, frame |-> frame,
                      replay |-> Replay([k \in 1..n |-> DropColumns(frame[k])], {})]
    /\ UNCHANGED <<sessionVars, scriptVars>>

NextScript == FirstRun \/ RunIngest \/ CallGenerate

SpecScript == InitScript /\ [][NextScript]_vars

---------------------------------------------------------------------------
(* The rule evaluator called on its own, once, on an input from a bounded set *)

TempMail_COM == <<"T", "e", "m", "p", "M", "a", "i", "l", ".", "C", "O", "M">>
tempmail_co == <<"t", "e", "m", "p", "m", "a", "i", "l", ".", "c", "o">>

EmailLocals == {<<>>, <<"a", "b">>, tempmail_com}
EmailDomains == {tempmail_com, fakeemail_com, disposable_com, gmail_com, TempMail_COM,
                 tempmail_co, <<>>}
EmailTails == {<<>>, <<"x">>, <<"@">>, <<"@", "x">>, <<"@">> \o tempmail_com}
Emails ==
    EmailLocals \cup
    {l \o <<"@">> \o d \o t : l \in EmailLocals, d \in EmailDomains, t \in EmailTails}

PhoneChars == {"0", "1", "5", "9"}
Phones == UNION {[1..n -> PhoneChars] : n \in 0..MaxPhoneLen}

\* dict d without key
Without(d, key) == [k \in (DOMAIN d) \ {key} |-> d[k]]

\* the fields an order is scored from
ScoringKeys == {"amount", "ip_address", "email", "phone", "billing_address", "shipping_address"}

FullOrders == {MkOrder(0, t) : t \in SessionDraws}
PartialOrders == {Without(o, key) : o \in FullOrders, key \in ScoringKeys}

InitRules ==
    /\ call = Idle
    /\ new_orders = <<>>
    /\ processed_orders = <<>>
    /\ seen_ips = {}
    /\ ui = [kind |-> "ok", key |-> ""]
    /\ trace = <<>>
    /\ started = TRUE
    /\ training_data = <<>>
    /\ new_orders_df = <<>>

CallSuspiciousEmail ==
    /\ call = Idle
    /\ \E email \in Emails :
         call' = [fn |-> "is_suspicious_email", arg |-> email,
                  result |-> is_suspicious_email(email)]
    /\ UNCHANGED <<sessionVars, scriptVars>>

CallSuspiciousPhone ==
    /\ call = Idle
    /\ \E phone \in Phones :
         call' = [fn |-> "is_suspicious_phone", arg |-> phone,
                  result |-> is_suspicious_phone(phone)]
    /\ UNCHANGED <<sessionVars, scriptVars>>

\* apply_rules called twice in a row on the same order and the same set object
CallApplyRules ==
    /\ call = Idle
    /\ \E order \in FullOrders \cup PartialOrders, seen \in SUBSET IPs :
         LET first == apply_rules(order, seen)
             second == apply_rules(order, first.seen_ips)
         IN  call' = [fn |-> "apply_rules", order |-> order, seen_ips |-> seen,
                      first |-> first, second |-> second]
    /\ UNCHANGED <<sessionVars, scriptVars>>

NextRules == CallSuspiciousEmail \/ CallSuspiciousPhone \/ CallApplyRules

SpecRules == InitRules /\ [][NextRules]_vars

---------------------------------------------------------------------------
(* Claims about the rule evaluator, under SpecRules *)

HasAt(email) == \E i \in DOMAIN email : email[i] = "@"
FirstAt(email) == CHOOSE i \in DOMAIN email : email[i] = "@" /\ \A j \in 1..(i - 1) : email[j] # "@"
\* everything after the first "@", up to the end of the string
AfterFirstAt(email) == SubSeq(email, FirstAt(email) + 1, Len(email))
\* what lies between the first "@" and the next "@", or the end of the string
UpToNextAt(email) ==
    LET rest == AfterFirstAt(email)
    IN  IF HasAt(rest) THEN SubSeq(rest, 1, FirstAt(rest) - 1) ELSE rest

\* C4 as stated: suspicious_email is true iff the email has an "@" and all
\* that follows the first "@", lower-cased, is a disposable domain; it never
\* raises and is false for an email without "@"
C4_AfterFirstAtToEnd ==
    call.fn = "is_suspicious_email" =>
        /\ call.result.exc = "none"
        /\ call.result.ret = (/\ HasAt(call.arg)
                              /\ StrLower(AfterFirstAt(call.arg)) \in DISPOSABLE_DOMAINS)

\* C4 amended: suspicious_email is true iff the email has an "@" and the text
\* between the first "@" and the next "@" (or the end of the string, when
\* there is no other "@"), lower-cased, is a disposable domain; it never
\* raises and is false for an email without "@"
C4_UpToNextAt ==
    call.fn = "is_suspicious_email" =>
        /\ call.result.exc = "none"
        /\ call.result.ret = (/\ HasAt(call.arg)
                              /\ StrLower(UpToNextAt(call.arg)) \in DISPOSABLE_DOMAINS)

\* an email with a second "@" after a mixed-case disposable domain was found suspicious
C4_Witness ==
    /\ call.fn = "is_suspicious_email"
    /\ HasAt(call.arg)
    /\ HasAt(AfterFirstAt(call.arg))
    /\ UpToNextAt(call.arg) = TempMail_COM
    /\ call.result.ret = TRUE

\* C5: suspicious_phone never raises and is true iff the phone is shorter
\* than 4, or all its characters equal the first, or it starts with 000 or
\* 999, or it ends with 0000 or 1111
C5_SuspiciousPhone ==
    call.fn = "is_suspicious_phone" =>
        LET phone == call.arg
            n == Len(phone)
        IN  /\ call.result.exc = "none"
            /\ call.result.ret =
                 (\/ n < 4
                  \/ \A i \in 1..n : phone[i] = phone[1]
                  \/ n >= 3 /\ \E c \in {"0", "9"} : \A i \in 1..3 : phone[i] = c
                  \/ n >= 4 /\ \E c \in {"0", "1"} : \A i \in (n - 3)..n : phone[i] = c)

\* the empty phone was found suspicious, without an exception
C5_Witness ==
    /\ call.fn = "is_suspicious_phone"
    /\ call.arg = <<>>
    /\ call.result = Ret(TRUE)

\* C6: apply_rules leaves seen_ips as it was, returns exactly the four keys,
\* sets repeated_ip iff the order's IP is in seen_ips, and a second call on
\* the same order and set returns the same flags
C6_ApplyRulesFrame ==
    call.fn = "apply_rules" =>
        /\ call.first.seen_ips = call.seen_ips
        /\ [i \in DOMAIN call.first.flags |-> call.first.flags[i].name]
             = <<k_mismatch, k_suspicious_email, k_suspicious_phone, k_repeated_ip>>
        /\ \A i \in DOMAIN call.first.flags : call.first.flags[i].val \in BOOLEAN
        /\ Flag(call.first.flags, k_repeated_ip)
             = (DictGet(call.order, "ip_address", "") \in call.seen_ips)
        /\ call.second.flags = call.first.flags

\* apply_rules ran on an order whose IP was in the set, and on one whose IP was not
C6_Witness ==
    /\ call.fn = "apply_rules"
    /\ HasKey(call.order, "ip_address")
    /\ call.order["ip_address"] \in call.seen_ips
    /\ call.seen_ips # IPs
    /\ Flag(call.first.flags, k_repeated_ip)

---------------------------------------------------------------------------
(* Claims about a session, under Spec *)

N_Mismatch == <<"M", "i", "s", "m", "a", "t", "c", "h">>
N_SuspiciousEmail == <<"S", "u", "s", "p", "i", "c", "i", "o", "u", "s", " ", "E", "m", "a", "i", "l">>
N_SuspiciousPhone == <<"S", "u", "s", "p", "i", "c", "i", "o", "u", "s", " ", "P", "h", "o", "n", "e">>
N_RepeatedIp == <<"R", "e", "p", "e", "a", "t", "e", "d", " ", "I", "p">>

RepeatedIpOf(k) == Flag(trace[k].flags, k_repeated_ip)
NoFlagOf(k) == \A i \in DOMAIN trace[k].flags : ~trace[k].flags[i].val

\* C1: the repeated_ip flag of the k-th order of a session is true iff an
\* earlier order of the session had the same IP, and once an order is
\* processed its IP is in the seen-IP set
C1_RepeatedIpIffSeenEarlier ==
    \A k \in DOMAIN trace :
        /\ RepeatedIpOf(k) =
             (\E j \in 1..(k - 1) : trace[j].order["ip_address"] = trace[k].order["ip_address"])
        /\ trace[k].order["ip_address"] \in seen_ips

\* three orders were processed: the third repeats the IP of the first and not
\* of the second, and only the third is flagged as repeated
C1_Witness ==
    /\ Len(trace) = 3
    /\ trace[3].order["ip_address"] = trace[1].order["ip_address"]
    /\ trace[3].order["ip_address"] # trace[2].order["ip_address"]
    /\ ~RepeatedIpOf(1) /\ ~RepeatedIpOf(2) /\ RepeatedIpOf(3)

\* C2: an order is flagged iff its risk_percent is at least 50.0 or one of
\* its rule flags is true
C2_FlaggedIff ==
    /\ Len(processed_orders) = Len(trace)
    /\ \A k \in DOMAIN processed_orders :
         /\ processed_orders[k].risk_score = trace[k].risk_percent
         /\ (processed_orders[k].flagged = "Yes") =
              (processed_orders[k].risk_score >= 5000 \/ ~NoFlagOf(k))
         /\ processed_orders[k].flagged \in {"Yes", "No"}

\* an order with a risk of exactly 50.0 and no rule flag was flagged, one
\* with a flag and a risk of 0.0 was flagged, one with 49.99 and no flag was not
C2_Witness ==
    /\ Len(processed_orders) = 3
    /\ processed_orders[1].risk_score = 5000 /\ NoFlagOf(1) /\ processed_orders[1].flagged = "Yes"
    /\ processed_orders[2].risk_score = 4999 /\ NoFlagOf(2) /\ processed_orders[2].flagged = "No"
    /\ processed_orders[3].risk_score = 0 /\ ~NoFlagOf(3) /\ processed_orders[3].flagged = "Yes"

\* the display names of the rules whose flag is true, in rule order
ExpectedNames(flags) ==
    (IF Flag(flags, k_mismatch) THEN <<N_Mismatch>> ELSE <<>>)
    \o (IF Flag(flags, k_suspicious_email) THEN <<N_SuspiciousEmail>> ELSE <<>>)
    \o (IF Flag(flags, k_suspicious_phone) THEN <<N_SuspiciousPhone>> ELSE <<>>)
    \o (IF Flag(flags, k_repeated_ip) THEN <<N_RepeatedIp>> ELSE <<>>)

\* C9: the triggered-rule names of a processed order are the title-cased
\* names of exactly the rules whose flag is true, in the order mismatch,
\* suspicious_email, suspicious_phone, repeated_ip; the list is empty iff no
\* flag is true, and an order with a non-empty list is flagged
C9_TriggeredRuleNames ==
    \A k \in DOMAIN trace :
        /\ trace[k].triggered_rules = ExpectedNames(trace[k].flags)
        /\ (trace[k].triggered_rules = <<>>) = NoFlagOf(k)
        /\ trace[k].triggered_rules # <<>> =>
             trace[k].flagged /\ processed_orders[k].flagged = "Yes"

\* an order that matches all four rules was processed with a risk of 0.0
C9_Witness ==
    \E k \in DOMAIN trace :
        /\ trace[k].triggered_rules = <<N_Mismatch, N_SuspiciousEmail, N_SuspiciousPhone, N_RepeatedIp>>
        /\ trace[k].risk_percent = 0
        /\ processed_orders[k].flagged = "Yes"

---------------------------------------------------------------------------
(* Orders that lack a field, under SpecMissing *)

MissingBase == [rd |-> DrawClean, ip |-> "1.1.1.1"]

\* row i, whole or without one of its scoring fields
OrderVariants(i) ==
    {MkOrder(i, MissingBase)} \cup {Without(MkOrder(i, MissingBase), key) : key \in ScoringKeys}

InitMissing ==
    /\ call = Idle
    /\ new_orders \in [1..MaxOrders -> UNION {OrderVariants(i) : i \in 0..(MaxOrders - 1)}]
    /\ \A k \in 1..MaxOrders : new_orders[k] \in OrderVariants(k - 1)
    /\ processed_orders = <<>>
    /\ seen_ips = {}
    /\ ui = [kind |-> "ok", key |-> ""]
    /\ trace = <<>>
    /\ started = TRUE
    /\ training_data = <<>>
    /\ new_orders_df = <<>>

SpecMissing == InitMissing /\ [][Next]_vars

\* C3: an order that lacks a scoring field fails with an error naming a
\* missing field, no default is substituted for it, and no verdict is
\* computed or recorded for it
C3_MissingFieldRejected ==
    \A k \in DOMAIN trace :
        LET missing == ScoringKeys \ DOMAIN trace[k].order
        IN  missing # {} =>
              /\ trace[k].key_error \in missing
              /\ trace[k].defaulted = {}
              /\ ~trace[k].scored
              /\ trace[k].appended = <<>>

---------------------------------------------------------------------------
(* Claims about the generator and the trainer, under SpecScript *)

\* C7: two calls generate_mock_data(n) with the same n give the same frame,
\* also when one follows the other in one process: the frame a script run
\* trains on is the frame the run before it trained on
C7_SameFrameEveryCall == [][training_data # <<>> => training_data' = training_data]_vars

\* C8: the vector built for an order at inference time and the row extracted
\* at training time hold mismatch, suspicious_email, suspicious_phone,
\* repeated_ip as 0/1 and then the amount divided by 1000; an order whose
\* flags and amount are those of a training row gets that row's vector
C8_FeatureParity ==
    LET X == ExtractX(training_data)
    IN  /\ \A j \in DOMAIN training_data :
             X[j] = << 1000 * training_data[j].mismatch,
                       1000 * training_data[j].suspicious_email,
                       1000 * training_data[j].suspicious_phone,
                       1000 * training_data[j].repeated_ip,
                       training_data[j].amount >>
        /\ \A k \in DOMAIN trace :
             /\ trace[k].features =
                  << 1000 * IntOf(Flag(trace[k].flags, k_mismatch)),
                     1000 * IntOf(Flag(trace[k].flags, k_suspicious_email)),
                     1000 * IntOf(Flag(trace[k].flags, k_suspicious_phone)),
                     1000 * IntOf(Flag(trace[k].flags, k_repeated_ip)),
                     trace[k].order["amount"] >>
             /\ \A j \in DOMAIN training_data :
                  (/\ training_data[j].mismatch = IntOf(Flag(trace[k].flags, k_mismatch))
                   /\ training_data[j].suspicious_email = IntOf(Flag(trace[k].flags, k_suspicious_email))
                   /\ training_data[j].suspicious_phone = IntOf(Flag(trace[k].flags, k_suspicious_phone))
                   /\ training_data[j].repeated_ip = IntOf(Flag(trace[k].flags, k_repeated_ip))
                   /\ training_data[j].amount = trace[k].order["amount"])
                  => \A c \in 1..5 : X[j][c] = trace[k].features[c]

\* an order with all four flags true and an amount of 4500 was scored while
\* the training frame held a row with the same flags and amount
C8_Witness ==
    \E k \in DOMAIN trace, j \in DOMAIN training_data :
        /\ trace[k].features = <<1000, 1000, 1000, 1000, 4500>>
        /\ training_data[j].mismatch = 1 /\ training_data[j].suspicious_email = 1
        /\ training_data[j].suspicious_phone = 1 /\ training_data[j].repeated_ip = 1
        /\ training_data[j].amount = 4500

OccursMoreThanOnce(df, i) == \E j \in DOMAIN df : j # i /\ df[j].ip_address = df[i].ip_address
FirstOccurrence(df, i) == \A j \in 1..(i - 1) : df[j].ip_address # df[i].ip_address

\* C10: in a generated frame repeated_ip is 1 exactly for the rows whose IP
\* is in more than one row, the first such row included; when the rows are
\* then processed in order from an empty seen-IP set, the first row of each
\* such IP gets repeated_ip false where the frame has 1
C10_RepeatedIpAcrossFrame ==
    /\ \A i \in DOMAIN training_data :
         /\ training_data[i].repeated_ip \in {0, 1}
         /\ (training_data[i].repeated_ip = 1) = OccursMoreThanOnce(training_data, i)
    /\ \A i \in DOMAIN new_orders_df :
         /\ new_orders_df[i].repeated_ip \in {0, 1}
         /\ (new_orders_df[i].repeated_ip = 1) = OccursMoreThanOnce(new_orders_df, i)
    /\ \A k \in DOMAIN trace :
         /\ trace[k].order = DropColumns(new_orders_df[k])
         /\ FirstOccurrence(new_orders_df, k) => ~RepeatedIpOf(k)
         /\ ~FirstOccurrence(new_orders_df, k) =>
              RepeatedIpOf(k) /\ new_orders_df[k].repeated_ip = 1
    /\ call.fn = "generate_mock_data" =>
         /\ Len(call.frame) = call.n /\ Len(call.replay) = call.n
         /\ \A i \in DOMAIN call.frame :
              /\ call.frame[i].repeated_ip \in {0, 1}
              /\ (call.frame[i].repeated_ip = 1) = OccursMoreThanOnce(call.frame, i)
              /\ FirstOccurrence(call.frame, i) =>
                   ~Flag(call.replay[i].flags, k_repeated_ip)
              /\ ~FirstOccurrence(call.frame, i) =>
                   Flag(call.replay[i].flags, k_repeated_ip) /\ call.frame[i].repeated_ip = 1

\* the first row of a frame whose rows share one IP was processed: the frame
\* has repeated_ip = 1 for it, the rule evaluator found false
C10_Witness ==
    /\ Len(trace) >= 1
    /\ Len(new_orders_df) >= 2
    /\ new_orders_df[1].repeated_ip = 1
    /\ ~RepeatedIpOf(1)

\* a frame of four rows, three of them with the IP of the first row and one
\* with an IP of its own: the frame marks the first row, the handler does not
C10_WitnessMixed ==
    /\ call.fn = "generate_mock_data"
    /\ call.n = 4
    /\ \E i \in 2..4 : call.frame[i].repeated_ip = 0
    /\ call.frame[1].repeated_ip = 1
    /\ ~Flag(call.replay[1].flags, k_repeated_ip)

====
